---- MODULE Spec2Model ----
(***************************************************************************)
(* The GraphQL user server (queries, mutations, subscriptions over        *)
(* graphql-ws with an in-process PubSub) as a state machine.              *)
(*                                                                         *)
(* One action is one turn of the Node event loop, except that a mutation   *)
(* resolver is split into its statements (commit, publish, return): the    *)
(* variable `executing` holds the request whose resolver is on the stack,  *)
(* and while it is set no other handler can run, as on one JS thread.      *)
(***************************************************************************)
EXTENDS Integers, Sequences, FiniteSets, TLC

\* ------------------------------------------------------------------ bounds
\* Number of mutation requests one behaviour may submit.
MaxWrites == 3

\* Number of streaming-protocol calls a behaviour with a call history records.
MaxCalls == 4

\* Number of definitions in a document handed to the client's link.
MaxDefs == 3

\* ------------------------------------------------------- program constants
\* let nextUserId = 4;
InitNextUserId == 4

\* The pubsub trigger names used by the mutations and the subscriptions.
Topics == {"USER_CREATED", "USER_UPDATED", "USER_DELETED"}

\* type Subscription { userCreated, userUpdated, userDeleted }
SubscriptionFields == {"userCreated", "userUpdated", "userDeleted"}

\* A field the schema does not declare, as a client may send it.
UnknownField == "userRenamed"

\* let users = [ ... ] : the sample data.
InitUsers ==
  << [id |-> "1", name |-> "Rahul", age |-> 25, salary |-> 70000, department |-> "Engineering"],
     [id |-> "2", name |-> "Aisha", age |-> 30, salary |-> 85000, department |-> "Marketing"],
     [id |-> "3", name |-> "Ravi", age |-> 22, salary |-> 60000, department |-> "Support"] >>

\* ------------------------------------------------------------ model inputs
\* Streaming connections (WebSocket clients) and the ids a client gives its
\* subscriptions on one connection.
Conns == {"c1", "c2"}
SubIds == {"s1", "s2"}
\* ctx.subscriptions keys: connection c1 may hold two subscriptions, c2 one.
Slots == {<<"c1", "s1">>, <<"c1", "s2">>, <<"c2", "s1">>}

\* HTTP exchanges: one at a time is between its resolver and its response,
\* while subscribes, deliveries and closes go on around it.
Reqs == {"r1"}

\* CreateUserInput values a client sends.
CreateInputs ==
  { [name |-> "Neo", age |-> 40, salary |-> 50000, department |-> "Sales"] }

\* UpdateUserInput values a client sends: every field is optional.
UpdateInputs == { [name |-> "Zed", age |-> 31] }

\* id arguments of updateUser / deleteUser: the id is in the store until a
\* deleteUser removes it, and not in the store afterwards.
IdArgs == {"1"}

\* throw new Error(`User with ID ${id} not found`)
NotFoundError == [ok |-> FALSE, value |-> "NotFound"]

\* An explicit null in an input or a stored record: for a String field and
\* for an Int or Float field (no age or salary is negative).
NullString == "<null>"
NullNumber == -1

\* What calling a method on null throws.
TypeError == [ok |-> FALSE, value |-> "TypeError"]

\* String.prototype.toLowerCase on the department names in use.
ToLowerCase(str) ==
  CASE str = "Engineering" -> "engineering"
    [] str = "Marketing" -> "marketing"
    [] str = "Support" -> "support"
    [] str = "Sales" -> "sales"
    [] str = "SALES" -> "sales"
    [] OTHER -> str

\* Richer inputs for the store on its own. UpdateUserInput leaves every field
\* optional and nullable, so an explicit null passes validation.
StoreUpdateInputs ==
  { [name |-> "Zed", age |-> 31],
    [name |-> NullString],
    [department |-> "Sales", salary |-> NullNumber] }

\* Ids of requests: a sample user, and the first id createUser gives out.
StoreIdArgs == {"1", "4"}

\* department arguments, in a case that differs from the stored one.
DepartmentArgs == {"engineering", "SALES"}

NoReq == "none"
NoOp == [name |-> "none", id |-> "none", topic |-> "none", payload |-> "none", ret |-> "none"]
NoResult == [ok |-> FALSE, value |-> "none"]
NoEvent == [topic |-> "none", seq |-> 0, payload |-> "none"]
Undefined == "undefined"

\* localStorage.getItem('token') when no token was stored, and the
\* connectionParams of the client that passes none.
Missing == "null"

\* connectionParams.authToken values: App.jsx's client sends none, main.jsx's
\* sends what localStorage holds.
AppJsxParams == {Missing}
MainJsxParams == {Missing, "token"}

NoCall == [kind |-> "none", conn |-> "none", id |-> "none", field |-> "none",
           found |-> "none", hook |-> FALSE]

\* ------------------------------------------------------------------- state
VARIABLES
  users,        \* let users: the array of user records
  nextUserId,   \* let nextUserId
  listeners,    \* pubsub's EventEmitter: trigger name -> slots whose iterator listens
  conn,         \* per connection: "closed" or "open" (socket open and acknowledged)
  subStatus,    \* per slot: ctx.subscriptions[id] and the last frame sent for it
  iterTopic,    \* per slot: the iterator's eventsArray (one trigger) or "none"
  pushQueue,    \* per slot: PubSubAsyncIterator.pushQueue
  pullWaiting,  \* per slot: PubSubAsyncIterator.pullQueue holds the loop's pending next()
  sending,      \* per slot: the result the for-await loop handed to socket.send
  received,     \* per slot: the Next frames the client has got, in order
  startSeq,     \* per slot: how many events its topic had published when it registered
  published,    \* per trigger: every payload pubsub.publish was called with, in order
  commitLog,    \* per trigger: the payload of every committed store change, in order
  pc,           \* per HTTP exchange: where its resolver stands
  op,           \* per HTTP exchange: the operation and its arguments
  result,       \* per HTTP exchange: the resolver's return value or thrown error
  evt,          \* per HTTP exchange: the sequence number of the event it published, 0 if none
  executing,    \* the exchange whose resolver is on the JS stack, or NoReq
  writes,       \* mutation requests submitted so far
  connParams,   \* per connection: ctx.connectionParams.authToken of its ConnectionInit
  doc,          \* client: the document of the operation handed to client.link
  linkState,    \* client: "idle", "pending" (handed to splitLink), "sent" or "threw"
  sentOn,       \* client: the links ("ws", "http") the operation was forwarded to
  audit,        \* whether the behaviour keeps the call history below
  calls,        \* history: number of streaming-protocol calls handled so far
  lastCall,     \* history: the last streaming-protocol call handled
  heap,         \* the user objects ever built: object -> its properties now
  userObj,      \* the object each element of the users array refers to
  objLog,       \* per trigger: the object each published payload refers to
  phase,        \* "running", "draining" (server.stop() under way) or "stopped"
  shown,        \* per client: the user list its UserList component displays
  fetchedAt,    \* per client: events it had received when it last fetched, -1 before the first fetch
  asked         \* per client: the fields whose useSubscription hook has sent its Subscribe

vars == << users, nextUserId, listeners, conn, subStatus, iterTopic, pushQueue,
           pullWaiting, sending, received, startSeq, published, commitLog,
           pc, op, result, evt, executing, writes,
           connParams, doc, linkState, sentOn, audit, calls, lastCall,
           heap, userObj, objLog, phase, shown, fetchedAt, asked >>

storeVars == << users, nextUserId >>
busVars == << listeners, pushQueue, pullWaiting, sending, published >>
subVars == << subStatus, iterTopic, startSeq >>
reqVars == << pc, op, result, evt >>
linkVars == << doc, linkState, sentOn >>
auditVars == << audit, calls, lastCall >>
heapVars == << heap, userObj, objLog >>
clientVars == << shown, fetchedAt, asked >>

\* ----------------------------------------------------------------- helpers
\* nextUserId.toString() for the integers below 100 the ids take.
Digit(d) ==
  CASE d = 0 -> "0" [] d = 1 -> "1" [] d = 2 -> "2" [] d = 3 -> "3" [] d = 4 -> "4"
    [] d = 5 -> "5" [] d = 6 -> "6" [] d = 7 -> "7" [] d = 8 -> "8" [] d = 9 -> "9"

IdToString(n) == IF n < 10 THEN Digit(n) ELSE Digit(n \div 10) \o Digit(n % 10)

\* users.findIndex(u => u.id === id): the first index (from 1) or 0 for -1.
FindIndex(us, id) ==
  IF \E i \in 1..Len(us) : us[i].id = id
    THEN CHOOSE i \in 1..Len(us) : us[i].id = id /\ \A j \in 1..(i - 1) : us[j].id # id
    ELSE 0

\* { id: nextUserId.toString(), ...input }
NewUser(n, input) ==
  [f \in {"id"} \cup DOMAIN input |-> IF f \in DOMAIN input THEN input[f] ELSE IdToString(n)]

\* Mutant of Merge: the spreads in the other order, { ...input, ...old }.
Merge_OldWins(old, input) ==
  [f \in DOMAIN old \cup DOMAIN input |-> IF f \in DOMAIN old THEN old[f] ELSE input[f]]

\* { ...users[userIndex], ...input }
Merge(old, input) ==
  [f \in DOMAIN old \cup DOMAIN input |-> IF f \in DOMAIN input THEN input[f] ELSE old[f]]

\* users.splice(userIndex, 1)
Splice(us, i) == [j \in 1..(Len(us) - 1) |-> IF j < i THEN us[j] ELSE us[j + 1]]

\* The trigger a subscription field's resolver passes to pubsub.asyncIterator.
TriggerOf(field) ==
  CASE field = "userCreated" -> "USER_CREATED"
    [] field = "userUpdated" -> "USER_UPDATED"
    [] field = "userDeleted" -> "USER_DELETED"

\* useServer's context hook: its body is commented out, so it returns undefined.
WsContext(c) == Undefined

\* Does the subscribe resolver of `field` throw when called with `ctx`?
\* userCreated destructures its third argument ({ user }), which throws a
\* TypeError on undefined; userUpdated and userDeleted take no argument.
ResolverThrows(field, ctx) == field = "userCreated" /\ ctx = Undefined

\* Objects are named by the statement that built them: the i-th literal of the
\* users array, or the k-th object a createUser / an updateUser built.
InitObj(i) == << "init", i >>
FreshObj(t) == << t, Len(commitLog[t]) + 1 >>

\* deleteUser publishes the id, a string, which refers to no object.
NoObject == << "primitive", 0 >>

\* Mutant of SpreadTarget: Object.assign(users[userIndex], input) writes the
\* input's fields into the object the array already holds.
SpreadTarget_InPlace(old, fresh) == old

\* users[userIndex] = { ...users[userIndex], ...input }: the object literal
\* builds a new object, and the old one is left as it is.
SpreadTarget(old, fresh) == fresh

\* The heap after object obj is given the properties rec.
Store(h, obj, rec) == [o \in DOMAIN h \cup {obj} |-> IF o = obj THEN rec ELSE h[o]]

ServerInit ==
  /\ users = InitUsers
  /\ nextUserId = InitNextUserId
  /\ listeners = [t \in Topics |-> {}]
  /\ conn = [c \in Conns |-> "closed"]
  /\ subStatus = [s \in Slots |-> "none"]
  /\ iterTopic = [s \in Slots |-> "none"]
  /\ pushQueue = [s \in Slots |-> << >>]
  /\ pullWaiting = [s \in Slots |-> FALSE]
  /\ sending = [s \in Slots |-> NoEvent]
  /\ received = [s \in Slots |-> << >>]
  /\ startSeq = [s \in Slots |-> 0]
  /\ published = [t \in Topics |-> << >>]
  /\ commitLog = [t \in Topics |-> << >>]
  /\ pc = [r \in Reqs |-> "idle"]
  /\ op = [r \in Reqs |-> NoOp]
  /\ result = [r \in Reqs |-> NoResult]
  /\ evt = [r \in Reqs |-> 0]
  /\ executing = NoReq
  /\ writes = 0
  /\ connParams = [c \in Conns |-> Missing]
  /\ heap = [o \in {InitObj(i) : i \in 1..Len(InitUsers)} |-> InitUsers[o[2]]]
  /\ userObj = [i \in 1..Len(InitUsers) |-> InitObj(i)]
  /\ objLog = [t \in Topics |-> << >>]
  /\ phase = "running"

\* What `asked` holds for a client that is not a UserList component.
NoUserList == {"none"}

\* No UserList component has fetched anything yet; the clients are bare
\* protocol clients.
ClientInit ==
  /\ shown = [c \in Conns |-> << >>]
  /\ fetchedAt = [c \in Conns |-> -1]
  /\ asked = [c \in Conns |-> NoUserList]

\* A UserList component remembers which of its useSubscription hooks have
\* sent their Subscribe message.
Started(c, field) ==
  asked' = IF asked[c] = NoUserList THEN asked ELSE [asked EXCEPT ![c] = @ \cup {field}]

\* The client's link has no operation in hand.
LinkIdle ==
  /\ doc = << >>
  /\ linkState = "idle"
  /\ sentOn = {}

Init ==
  /\ ServerInit
  /\ LinkIdle
  /\ ClientInit
  /\ audit = FALSE
  /\ calls = 0
  /\ lastCall = NoCall

\* Mutant of ContextHookRuns: the hook runs once, when the connection is
\* acknowledged, and its value is kept for the subscriptions.
ContextHookRuns_AtHandshake(kind, field) == kind = "connect"

\* Does the server call useServer's context hook while it handles this
\* message? graphql-ws calls it for each Subscribe message whose document
\* passed validation, to fill execArgs.contextValue, and at no other time.
ContextHookRuns(kind, field) == kind = "subscribe" /\ field \in SubscriptionFields

\* History of the streaming-protocol calls: when the behaviour keeps one, a
\* handled call is counted and remembered (what it was, what state it found
\* its target in, whether the context hook ran), so that a call that changes
\* nothing else is still a step.
Audit(kind, c, id, field, found) ==
  /\ audit => calls < MaxCalls
  /\ calls' = IF audit THEN calls + 1 ELSE calls
  /\ lastCall' = IF audit
       THEN [kind |-> kind, conn |-> c, id |-> id, field |-> field, found |-> found,
             hook |-> ContextHookRuns(kind, field)]
       ELSE lastCall
  /\ UNCHANGED audit

\* ------------------------------------------------------------------ pubsub
\* The event pubsub.publish(t, payload) emits: its position in the topic's
\* publication order stands for the sequence number.
EventOf(t, payload) == [topic |-> t, seq |-> Len(published[t]) + 1, payload |-> payload]

\* Mutant of Publish: pushValue puts the event at the head of pushQueue.
Publish_LIFO(t, payload) ==
  /\ published' = [published EXCEPT ![t] = Append(@, payload)]
  /\ pushQueue' = [s \in Slots |->
       IF s \in listeners[t] /\ ~pullWaiting[s]
         THEN << EventOf(t, payload) >> \o pushQueue[s] ELSE pushQueue[s]]
  /\ sending' = [s \in Slots |->
       IF s \in listeners[t] /\ pullWaiting[s] THEN EventOf(t, payload) ELSE sending[s]]
  /\ pullWaiting' = [s \in Slots |-> IF s \in listeners[t] THEN FALSE ELSE pullWaiting[s]]
  /\ UNCHANGED listeners

\* Mutant of Publish: the emitter calls the listeners of every trigger.
Publish_Broadcast(t, payload) ==
  LET all == UNION {listeners[u] : u \in Topics} IN
  /\ published' = [published EXCEPT ![t] = Append(@, payload)]
  /\ pushQueue' = [s \in Slots |->
       IF s \in all /\ ~pullWaiting[s]
         THEN Append(pushQueue[s], EventOf(t, payload)) ELSE pushQueue[s]]
  /\ sending' = [s \in Slots |->
       IF s \in all /\ pullWaiting[s] THEN EventOf(t, payload) ELSE sending[s]]
  /\ pullWaiting' = [s \in Slots |-> IF s \in all THEN FALSE ELSE pullWaiting[s]]
  /\ UNCHANGED listeners

\* Mutant of Publish: pushValue only resolves a pending next() and drops the
\* event when the loop is busy.
Publish_SkipBusy(t, payload) ==
  /\ published' = [published EXCEPT ![t] = Append(@, payload)]
  /\ sending' = [s \in Slots |->
       IF s \in listeners[t] /\ pullWaiting[s] THEN EventOf(t, payload) ELSE sending[s]]
  /\ pullWaiting' = [s \in Slots |-> IF s \in listeners[t] THEN FALSE ELSE pullWaiting[s]]
  /\ UNCHANGED << listeners, pushQueue >>

\* Mutant of Publish: a queue of capacity one; a listener whose queue is full
\* is removed from the emitter and its queue cleared.
Publish_DropOnOverflow(t, payload) ==
  LET full == {s \in listeners[t] : ~pullWaiting[s] /\ Len(pushQueue[s]) >= 1} IN
  /\ published' = [published EXCEPT ![t] = Append(@, payload)]
  /\ listeners' = [listeners EXCEPT ![t] = @ \ full]
  /\ pushQueue' = [s \in Slots |->
       IF s \in full THEN << >>
       ELSE IF s \in listeners[t] /\ ~pullWaiting[s]
         THEN Append(pushQueue[s], EventOf(t, payload)) ELSE pushQueue[s]]
  /\ sending' = [s \in Slots |->
       IF s \in listeners[t] /\ pullWaiting[s] THEN EventOf(t, payload) ELSE sending[s]]
  /\ pullWaiting' = [s \in Slots |-> IF s \in listeners[t] THEN FALSE ELSE pullWaiting[s]]

\* Mutant of Publish: the bus keeps one subscriber per connection, so that of
\* the listeners a connection has on t only one gets the event.
Publish_OncePerConnection(t, payload) ==
  LET one == {s \in listeners[t] : s = CHOOSE x \in listeners[t] : x[1] = s[1]} IN
  /\ published' = [published EXCEPT ![t] = Append(@, payload)]
  /\ pushQueue' = [s \in Slots |->
       IF s \in one /\ ~pullWaiting[s]
         THEN Append(pushQueue[s], EventOf(t, payload)) ELSE pushQueue[s]]
  /\ sending' = [s \in Slots |->
       IF s \in one /\ pullWaiting[s] THEN EventOf(t, payload) ELSE sending[s]]
  /\ pullWaiting' = [s \in Slots |-> IF s \in one THEN FALSE ELSE pullWaiting[s]]
  /\ UNCHANGED listeners

\* Mutant of Publish: a listener whose queue already holds an event throws,
\* and the emitter's loop over the listeners of t ends without a delivery.
Publish_BlockedBySlow(t, payload) ==
  LET blocked == \E s \in listeners[t] : ~pullWaiting[s] /\ Len(pushQueue[s]) >= 1
      to == IF blocked THEN {} ELSE listeners[t] IN
  /\ published' = [published EXCEPT ![t] = Append(@, payload)]
  /\ pushQueue' = [s \in Slots |->
       IF s \in to /\ ~pullWaiting[s]
         THEN Append(pushQueue[s], EventOf(t, payload)) ELSE pushQueue[s]]
  /\ sending' = [s \in Slots |->
       IF s \in to /\ pullWaiting[s] THEN EventOf(t, payload) ELSE sending[s]]
  /\ pullWaiting' = [s \in Slots |-> IF s \in to THEN FALSE ELSE pullWaiting[s]]
  /\ UNCHANGED listeners

\* pubsub.publish(t, payload): the emitter calls every listener of t; each
\* iterator's pushValue resolves the loop's pending next() if there is one and
\* appends to its pushQueue otherwise. No listener is ever removed here and
\* pushQueue has no capacity.
Publish(t, payload) ==
  /\ published' = [published EXCEPT ![t] = Append(@, payload)]
  /\ pushQueue' = [s \in Slots |->
       IF s \in listeners[t] /\ ~pullWaiting[s]
         THEN Append(pushQueue[s], EventOf(t, payload)) ELSE pushQueue[s]]
  /\ sending' = [s \in Slots |->
       IF s \in listeners[t] /\ pullWaiting[s] THEN EventOf(t, payload) ELSE sending[s]]
  /\ pullWaiting' = [s \in Slots |-> IF s \in listeners[t] THEN FALSE ELSE pullWaiting[s]]
  /\ UNCHANGED listeners

\* Mutant of ReturnIterators: emptyQueue stops the iterators and clears their
\* queues but leaves the removal of their listeners to a later turn.
ReturnIterators_KeepListener(S, status) ==
  /\ UNCHANGED listeners
  /\ pushQueue' = [s \in Slots |-> IF s \in S THEN << >> ELSE pushQueue[s]]
  /\ pullWaiting' = [s \in Slots |-> IF s \in S THEN FALSE ELSE pullWaiting[s]]
  /\ sending' = [s \in Slots |-> IF s \in S THEN NoEvent ELSE sending[s]]
  /\ iterTopic' = [s \in Slots |->
       IF s \in S /\ (status = "none" \/ subStatus[s] # "subscribed") THEN "none" ELSE iterTopic[s]]
  /\ subStatus' = [s \in Slots |->
       IF s \notin S THEN subStatus[s]
       ELSE IF subStatus[s] = "subscribed" THEN status ELSE "none"]
  /\ received' = [s \in Slots |-> IF s \in S THEN << >> ELSE received[s]]
  /\ startSeq' = [s \in Slots |-> IF s \in S THEN 0 ELSE startSeq[s]]

\* PubSubAsyncIterator.return() on the iterators of the slots in S: emptyQueue
\* stops them, clears both queues and removes their listeners from the emitter.
\* `status` is what the slot shows afterwards: "none" after a Complete (the
\* entry is deleted from ctx.subscriptions), "closed" after the socket closed
\* (the returned iterator keeps its eventsArray).
ReturnIterators(S, status) ==
  /\ listeners' = [t \in Topics |-> listeners[t] \ S]
  /\ pushQueue' = [s \in Slots |-> IF s \in S THEN << >> ELSE pushQueue[s]]
  /\ pullWaiting' = [s \in Slots |-> IF s \in S THEN FALSE ELSE pullWaiting[s]]
  /\ sending' = [s \in Slots |-> IF s \in S THEN NoEvent ELSE sending[s]]
  /\ iterTopic' = [s \in Slots |->
       IF s \in S /\ (status = "none" \/ subStatus[s] # "subscribed") THEN "none" ELSE iterTopic[s]]
  /\ subStatus' = [s \in Slots |->
       IF s \notin S THEN subStatus[s]
       ELSE IF subStatus[s] = "subscribed" THEN status ELSE "none"]
  /\ received' = [s \in Slots |-> IF s \in S THEN << >> ELSE received[s]]
  /\ startSeq' = [s \in Slots |-> IF s \in S THEN 0 ELSE startSeq[s]]

\* --------------------------------------------------------------- mutations
\* Mutant of HandlerOnStack: an await between the store change and the
\* publish gives the event loop back.
HandlerOnStack_Await(r) == NoReq

\* The resolvers are synchronous functions: after the store change the
\* resolver r stays on the stack up to its return, with no await in between.
HandlerOnStack(r) == r

\* Mutant of CreateUser: the publish statement comes before users.push.
CreateUser_PublishFirst(r, input) ==
  /\ executing = NoReq /\ pc[r] = "idle" /\ writes < MaxWrites /\ phase = "running"
  /\ LET newUser == NewUser(nextUserId, input) IN
       /\ nextUserId' = nextUserId + 1
       /\ op' = [op EXCEPT ![r] =
            [name |-> "createUser", id |-> "none", topic |-> "USER_CREATED", payload |-> newUser, ret |-> newUser]]
  /\ pc' = [pc EXCEPT ![r] = "publish"]
  /\ executing' = r
  /\ writes' = writes + 1
  /\ UNCHANGED << users, commitLog, busVars, subVars, conn, received, result, evt >>
  /\ UNCHANGED heapVars
  /\ UNCHANGED << connParams, linkVars, clientVars, phase, auditVars >>

\* Mutant of CreateUser: the id is taken from the length of the array.
CreateUser_IdFromLength(r, input) ==
  /\ executing = NoReq /\ pc[r] = "idle" /\ writes < MaxWrites /\ phase = "running"
  /\ LET newUser == NewUser(Len(users) + 1, input) IN
       /\ nextUserId' = nextUserId + 1
       /\ users' = Append(users, newUser)
       /\ heap' = Store(heap, FreshObj("USER_CREATED"), newUser)
       /\ userObj' = Append(userObj, FreshObj("USER_CREATED"))
       /\ objLog' = [objLog EXCEPT !["USER_CREATED"] = Append(@, FreshObj("USER_CREATED"))]
       /\ commitLog' = [commitLog EXCEPT !["USER_CREATED"] = Append(@, newUser)]
       /\ op' = [op EXCEPT ![r] =
            [name |-> "createUser", id |-> "none", topic |-> "USER_CREATED", payload |-> newUser, ret |-> newUser]]
  /\ pc' = [pc EXCEPT ![r] = "publish"]
  /\ executing' = r
  /\ writes' = writes + 1
  /\ UNCHANGED << busVars, subVars, conn, received, result, evt >>
  /\ UNCHANGED << connParams, linkVars, clientVars, phase, auditVars >>

\* createUser, lines before the publish: build newUser, nextUserId++, users.push.
CreateUser(r, input) ==
  /\ executing = NoReq /\ pc[r] = "idle" /\ writes < MaxWrites /\ phase = "running"
  /\ LET newUser == NewUser(nextUserId, input) IN
       /\ nextUserId' = nextUserId + 1
       /\ users' = Append(users, newUser)
       /\ heap' = Store(heap, FreshObj("USER_CREATED"), newUser)
       /\ userObj' = Append(userObj, FreshObj("USER_CREATED"))
       /\ objLog' = [objLog EXCEPT !["USER_CREATED"] = Append(@, FreshObj("USER_CREATED"))]
       /\ commitLog' = [commitLog EXCEPT !["USER_CREATED"] = Append(@, newUser)]
       /\ op' = [op EXCEPT ![r] =
            [name |-> "createUser", id |-> "none", topic |-> "USER_CREATED", payload |-> newUser, ret |-> newUser]]
  /\ pc' = [pc EXCEPT ![r] = "publish"]
  /\ executing' = HandlerOnStack(r)
  /\ writes' = writes + 1
  /\ UNCHANGED << busVars, subVars, conn, received, result, evt >>
  /\ UNCHANGED << connParams, linkVars, clientVars, phase, auditVars >>

\* updateUser, lines before the publish: findIndex, throw on -1, else replace
\* users[userIndex] by the merged record.
UpdateUser(r, id, input) ==
  /\ executing = NoReq /\ pc[r] = "idle" /\ writes < MaxWrites /\ phase = "running"
  /\ writes' = writes + 1
  /\ LET userIndex == FindIndex(users, id) IN
       IF userIndex = 0
         THEN /\ result' = [result EXCEPT ![r] = NotFoundError]
              /\ op' = [op EXCEPT ![r] =
                   [name |-> "updateUser", id |-> id, topic |-> "none", payload |-> "none", ret |-> "none"]]
              /\ pc' = [pc EXCEPT ![r] = "resolved"]
              /\ UNCHANGED << users, commitLog, executing, heapVars >>
         ELSE LET merged == Merge(users[userIndex], input)
                  target == SpreadTarget(userObj[userIndex], FreshObj("USER_UPDATED")) IN
              /\ users' = [users EXCEPT ![userIndex] = merged]
              /\ heap' = Store(heap, target, merged)
              /\ userObj' = [userObj EXCEPT ![userIndex] = target]
              /\ objLog' = [objLog EXCEPT !["USER_UPDATED"] = Append(@, target)]
              /\ commitLog' = [commitLog EXCEPT !["USER_UPDATED"] = Append(@, merged)]
              /\ op' = [op EXCEPT ![r] =
                   [name |-> "updateUser", id |-> id, topic |-> "USER_UPDATED", payload |-> merged, ret |-> merged]]
              /\ pc' = [pc EXCEPT ![r] = "publish"]
              /\ executing' = HandlerOnStack(r)
              /\ UNCHANGED result
  /\ UNCHANGED << nextUserId, busVars, subVars, conn, received, evt >>
  /\ UNCHANGED << connParams, linkVars, clientVars, phase, auditVars >>

\* Mutant of DeleteUser: no check of findIndex's -1, so users.splice(-1, 1)
\* removes the last user and the resolver goes on to publish.
DeleteUser_NoCheck(r, id) ==
  /\ executing = NoReq /\ pc[r] = "idle" /\ writes < MaxWrites /\ phase = "running"
  /\ writes' = writes + 1
  /\ LET userIndex == FindIndex(users, id)
         at == IF userIndex = 0 THEN Len(users) ELSE userIndex
     IN /\ users' = [j \in 1..(Len(users) - 1) |-> IF j < at THEN users[j] ELSE users[j + 1]]
        /\ userObj' = Splice(userObj, at)
        /\ objLog' = [objLog EXCEPT !["USER_DELETED"] = Append(@, NoObject)]
        /\ UNCHANGED heap
        /\ commitLog' = [commitLog EXCEPT !["USER_DELETED"] = Append(@, id)]
        /\ op' = [op EXCEPT ![r] =
             [name |-> "deleteUser", id |-> id, topic |-> "USER_DELETED", payload |-> id, ret |-> TRUE]]
        /\ pc' = [pc EXCEPT ![r] = "publish"]
        /\ executing' = r
  /\ UNCHANGED << nextUserId, busVars, subVars, conn, received, evt, result >>
  /\ UNCHANGED << connParams, linkVars, clientVars, phase, auditVars >>

\* deleteUser, lines before the publish: findIndex, throw on -1, else splice.
DeleteUser(r, id) ==
  /\ executing = NoReq /\ pc[r] = "idle" /\ writes < MaxWrites /\ phase = "running"
  /\ writes' = writes + 1
  /\ LET userIndex == FindIndex(users, id) IN
       IF userIndex = 0
         THEN /\ result' = [result EXCEPT ![r] = NotFoundError]
              /\ op' = [op EXCEPT ![r] =
                   [name |-> "deleteUser", id |-> id, topic |-> "none", payload |-> "none", ret |-> "none"]]
              /\ pc' = [pc EXCEPT ![r] = "resolved"]
              /\ UNCHANGED << users, commitLog, executing, heapVars >>
         ELSE /\ users' = Splice(users, userIndex)
              /\ userObj' = Splice(userObj, userIndex)
              /\ objLog' = [objLog EXCEPT !["USER_DELETED"] = Append(@, NoObject)]
              /\ UNCHANGED heap
              /\ commitLog' = [commitLog EXCEPT !["USER_DELETED"] = Append(@, id)]
              /\ op' = [op EXCEPT ![r] =
                   [name |-> "deleteUser", id |-> id, topic |-> "USER_DELETED", payload |-> id, ret |-> TRUE]]
              /\ pc' = [pc EXCEPT ![r] = "publish"]
              /\ executing' = HandlerOnStack(r)
              /\ UNCHANGED result
  /\ UNCHANGED << nextUserId, busVars, subVars, conn, received, evt >>
  /\ UNCHANGED << connParams, linkVars, clientVars, phase, auditVars >>

\* The resolver's pubsub.publish(...) statement.
PublishStep(r) ==
  /\ executing = r /\ pc[r] = "publish"
  /\ Publish(op[r].topic, op[r].payload)
  /\ evt' = [evt EXCEPT ![r] = Len(published[op[r].topic]) + 1]
  /\ pc' = [pc EXCEPT ![r] = "return"]
  /\ UNCHANGED << storeVars, subVars, conn, received, commitLog, op, result, executing, writes >>
  /\ UNCHANGED << connParams, linkVars, clientVars, phase, auditVars >>
  /\ UNCHANGED heapVars

\* The resolver's return statement: the handler leaves the stack.
ReturnStep(r) ==
  /\ executing = r /\ pc[r] = "return"
  /\ result' = [result EXCEPT ![r] = [ok |-> TRUE, value |-> op[r].ret]]
  /\ pc' = [pc EXCEPT ![r] = "resolved"]
  /\ executing' = NoReq
  /\ UNCHANGED << storeVars, busVars, subVars, conn, received, commitLog, op, evt, writes >>
  /\ UNCHANGED << connParams, linkVars, clientVars, phase, auditVars >>
  /\ UNCHANGED heapVars

\* expressMiddleware writes the HTTP response: the caller sees the result.
Respond(r) ==
  /\ executing = NoReq /\ pc[r] = "resolved"
  /\ pc' = [pc EXCEPT ![r] = "idle"]
  /\ op' = [op EXCEPT ![r] = NoOp]
  /\ result' = [result EXCEPT ![r] = NoResult]
  /\ evt' = [evt EXCEPT ![r] = 0]
  /\ UNCHANGED << storeVars, busVars, subVars, conn, received, commitLog, executing, writes >>
  /\ UNCHANGED << connParams, linkVars, clientVars, phase, auditVars >>
  /\ UNCHANGED heapVars

\* ------------------------------------------------------------------ queries
\* Query.users: returns the array.
QueryUsers(r) ==
  /\ executing = NoReq /\ pc[r] = "idle" /\ phase = "running"
  /\ op' = [op EXCEPT ![r] = [name |-> "users", id |-> "none", topic |-> "none", payload |-> "none", ret |-> "none"]]
  /\ result' = [result EXCEPT ![r] = [ok |-> TRUE, value |-> users]]
  /\ pc' = [pc EXCEPT ![r] = "resolved"]
  /\ UNCHANGED << storeVars, busVars, subVars, conn, received, commitLog, evt, executing, writes >>
  /\ UNCHANGED << connParams, linkVars, clientVars, phase, auditVars >>
  /\ UNCHANGED heapVars

\* Mutant of QueryUser: the resolver removes the user it returns.
QueryUser_Take(r, id) ==
  /\ executing = NoReq /\ pc[r] = "idle" /\ phase = "running"
  /\ LET userIndex == FindIndex(users, id) IN
       /\ op' = [op EXCEPT ![r] = [name |-> "user", id |-> id, topic |-> "none", payload |-> "none", ret |-> "none"]]
       /\ result' = [result EXCEPT ![r] =
            IF userIndex = 0 THEN NotFoundError ELSE [ok |-> TRUE, value |-> users[userIndex]]]
       /\ users' = IF userIndex = 0 THEN users ELSE Splice(users, userIndex)
       /\ userObj' = IF userIndex = 0 THEN userObj ELSE Splice(userObj, userIndex)
  /\ pc' = [pc EXCEPT ![r] = "resolved"]
  /\ UNCHANGED << nextUserId, busVars, subVars, conn, received, commitLog, evt, executing, writes >>
  /\ UNCHANGED << connParams, linkVars, clientVars, phase, auditVars, heap, objLog >>

\* Query.user: users.find(u => u.id === id), throw when there is none.
QueryUser(r, id) ==
  /\ executing = NoReq /\ pc[r] = "idle" /\ phase = "running"
  /\ LET userIndex == FindIndex(users, id) IN
       /\ op' = [op EXCEPT ![r] = [name |-> "user", id |-> id, topic |-> "none", payload |-> "none", ret |-> "none"]]
       /\ result' = [result EXCEPT ![r] =
            IF userIndex = 0 THEN NotFoundError ELSE [ok |-> TRUE, value |-> users[userIndex]]]
  /\ pc' = [pc EXCEPT ![r] = "resolved"]
  /\ UNCHANGED << storeVars, busVars, subVars, conn, received, commitLog, evt, executing, writes >>
  /\ UNCHANGED << connParams, linkVars, clientVars, phase, auditVars, heapVars >>

\* Query.usersByDepartment: users.filter(u => u.department.toLowerCase() ===
\* department.toLowerCase()); toLowerCase on a null department is a TypeError.
QueryUsersByDepartment(r, department) ==
  /\ executing = NoReq /\ pc[r] = "idle" /\ phase = "running"
  /\ op' = [op EXCEPT ![r] = [name |-> "usersByDepartment", id |-> department, topic |-> "none",
                               payload |-> "none", ret |-> "none"]]
  /\ result' = [result EXCEPT ![r] =
       IF \E i \in 1..Len(users) : users[i].department = NullString
         THEN TypeError
         ELSE [ok |-> TRUE,
               value |-> SelectSeq(users, LAMBDA u : ToLowerCase(u.department) = ToLowerCase(department))]]
  /\ pc' = [pc EXCEPT ![r] = "resolved"]
  /\ UNCHANGED << storeVars, busVars, subVars, conn, received, commitLog, evt, executing, writes >>
  /\ UNCHANGED << connParams, linkVars, clientVars, phase, auditVars, heapVars >>

\* ------------------------------------------------------ streaming transport
\* A client opens the WebSocket and sends ConnectionInit with its
\* connectionParams; useServer is given no onConnect, so the server stores the
\* params in a fresh ctx (empty ctx.subscriptions) and acknowledges, whatever
\* they are. The context hook is not called here.
Connect(c, params) ==
  /\ executing = NoReq /\ conn[c] = "closed" /\ phase = "running"
  /\ conn' = [conn EXCEPT ![c] = "open"]
  /\ connParams' = [connParams EXCEPT ![c] = params]
  /\ subStatus' = [s \in Slots |-> IF s[1] = c THEN "none" ELSE subStatus[s]]
  /\ iterTopic' = [s \in Slots |-> IF s[1] = c THEN "none" ELSE iterTopic[s]]
  /\ Audit("connect", c, "none", "none", conn[c])
  /\ UNCHANGED << storeVars, busVars, startSeq, received, commitLog, reqVars, executing, writes >>
  /\ UNCHANGED << linkVars, clientVars, phase >>
  /\ UNCHANGED heapVars

\* Mutant of InitialQueue: a replaying bus hands a new iterator the events the
\* topic has already published.
InitialQueue_Replay(t) ==
  [i \in 1..Len(published[t]) |-> [topic |-> t, seq |-> i, payload |-> published[t][i]]]

\* new PubSubAsyncIterator(pubsub, [t]): this.pushQueue = [].
InitialQueue(t) == << >>

\* Mutant of SubscribeOutcome: the iterator is registered before the document
\* is validated, so an unknown field leaves a listener behind.
SubscribeOutcome_Partial(field, ctx) ==
  IF field \notin SubscriptionFields THEN [status |-> "error", topic |-> "USER_UPDATED"]
  ELSE IF ResolverThrows(field, ctx) THEN [status |-> "failed", topic |-> "none"]
  ELSE [status |-> "subscribed", topic |-> TriggerOf(field)]

\* What a Subscribe message for `field` comes to, given the context value:
\* graphql-ws validates the document against the schema (a field the
\* Subscription type does not declare: Error frame, nothing else happens), then
\* graphql's subscribe calls the field's subscribe resolver (a throw: Next
\* frame with errors, then Complete); otherwise the iterator of the field's
\* trigger is stored in ctx.subscriptions.
SubscribeOutcome(field, ctx) ==
  IF field \notin SubscriptionFields THEN [status |-> "error", topic |-> "none"]
  ELSE IF ResolverThrows(field, ctx) THEN [status |-> "failed", topic |-> "none"]
  ELSE [status |-> "subscribed", topic |-> TriggerOf(field)]

\* Mutant of Subscribe: a Subscribe message that ends in an error closes the
\* socket, as a protocol violation does.
Subscribe_FailureClosesSocket(c, id, field) ==
  /\ executing = NoReq /\ conn[c] = "open" /\ <<c, id>> \in Slots
  /\ subStatus[<<c, id>>] # "subscribed"
  /\ LET s == <<c, id>>
         o == SubscribeOutcome(field, WsContext(c))
     IN IF o.topic = "none"
          THEN /\ conn' = [conn EXCEPT ![c] = "closed"]
               /\ ReturnIterators({x \in Slots : x[1] = c}, "closed")
          ELSE /\ subStatus' = [subStatus EXCEPT ![s] = o.status]
               /\ iterTopic' = [iterTopic EXCEPT ![s] = o.topic]
               /\ listeners' = [listeners EXCEPT ![o.topic] = @ \cup {s}]
               /\ pushQueue' = [pushQueue EXCEPT ![s] = InitialQueue(o.topic)]
               /\ pullWaiting' = [pullWaiting EXCEPT ![s] = InitialQueue(o.topic) = << >>]
               /\ startSeq' = [startSeq EXCEPT ![s] = Len(published[o.topic])]
               /\ UNCHANGED << conn, sending, received >>
  /\ Audit("subscribe", c, id, field, subStatus[<<c, id>>])
  /\ UNCHANGED << storeVars, published, commitLog, reqVars, executing, writes >>
  /\ UNCHANGED << connParams, linkVars, clientVars, phase >>
  /\ UNCHANGED heapVars

\* A Subscribe message for `field` under subscription id `id` on connection c.
\* The client gives every subscription a fresh id, so `id` is not one of a
\* live subscription. The server validates the document and then, for every
\* Subscribe message that passed, calls the context hook to get the context
\* value. On success the for-await loop calls next() in the same turn, which
\* adds the iterator's listener to the emitter and waits for the first event.
Subscribe(c, id, field) ==
  /\ executing = NoReq /\ conn[c] = "open" /\ <<c, id>> \in Slots
  /\ subStatus[<<c, id>>] # "subscribed"
  /\ LET s == <<c, id>>
         o == SubscribeOutcome(field, WsContext(c))
     IN /\ subStatus' = [subStatus EXCEPT ![s] = o.status]
        /\ iterTopic' = [iterTopic EXCEPT ![s] = o.topic]
        /\ IF o.topic = "none"
             THEN UNCHANGED << listeners, pullWaiting, pushQueue, startSeq >>
             ELSE /\ listeners' = [listeners EXCEPT ![o.topic] = @ \cup {s}]
                  /\ pushQueue' = [pushQueue EXCEPT ![s] = InitialQueue(o.topic)]
                  /\ pullWaiting' = [pullWaiting EXCEPT ![s] = InitialQueue(o.topic) = << >>]
                  /\ startSeq' = [startSeq EXCEPT ![s] = Len(published[o.topic])]
  /\ Audit("subscribe", c, id, field, subStatus[<<c, id>>])
  /\ Started(c, field)
  /\ UNCHANGED << storeVars, sending, published, conn, received, commitLog,
                  reqVars, executing, writes >>
  /\ UNCHANGED << connParams, linkVars, shown, fetchedAt, phase >>
  /\ UNCHANGED heapVars

\* socket.send's callback for the frame in flight: the client has the event,
\* and the loop calls next(), which shifts pushQueue or waits.
SocketSendDone(s) ==
  /\ executing = NoReq /\ subStatus[s] = "subscribed" /\ sending[s] # NoEvent
  /\ received' = [received EXCEPT ![s] = Append(@, sending[s])]
  /\ IF pushQueue[s] # << >>
       THEN /\ sending' = [sending EXCEPT ![s] = Head(pushQueue[s])]
            /\ pushQueue' = [pushQueue EXCEPT ![s] = Tail(@)]
            /\ UNCHANGED pullWaiting
       ELSE /\ sending' = [sending EXCEPT ![s] = NoEvent]
            /\ pullWaiting' = [pullWaiting EXCEPT ![s] = TRUE]
            /\ UNCHANGED pushQueue
  /\ UNCHANGED << storeVars, listeners, published, subVars, conn, commitLog, reqVars,
                  executing, writes >>
  /\ UNCHANGED << connParams, linkVars, clientVars, phase, auditVars >>
  /\ UNCHANGED heapVars

\* Mutant of Complete: a Complete for an id that holds no subscription is a
\* protocol error that closes the socket.
Complete_Strict(s) ==
  /\ executing = NoReq /\ conn[s[1]] = "open"
  /\ IF subStatus[s] = "subscribed"
       THEN /\ ReturnIterators({s}, "none")
            /\ UNCHANGED conn
       ELSE /\ conn' = [conn EXCEPT ![s[1]] = "closed"]
            /\ ReturnIterators({x \in Slots : x[1] = s[1]}, "closed")
  /\ Audit("complete", s[1], s[2], "none", subStatus[s])
  /\ UNCHANGED << storeVars, published, commitLog, reqVars, executing, writes >>
  /\ UNCHANGED << connParams, linkVars, clientVars, phase >>
  /\ UNCHANGED heapVars

\* A Complete message from the client for subscription s: the entry is
\* deleted from ctx.subscriptions and, if it held an iterator, the iterator is
\* returned. For an id that holds none (never subscribed, already completed,
\* ended by an error) the delete finds nothing and nothing else happens.
Complete(s) ==
  /\ executing = NoReq /\ conn[s[1]] = "open"
  /\ IF subStatus[s] = "subscribed"
       THEN ReturnIterators({s}, "none")
       ELSE UNCHANGED << listeners, pushQueue, pullWaiting, sending, subVars, received >>
  /\ Audit("complete", s[1], s[2], "none", subStatus[s])
  /\ UNCHANGED << storeVars, published, conn, commitLog, reqVars, executing, writes >>
  /\ UNCHANGED << connParams, linkVars, clientVars, phase >>
  /\ UNCHANGED heapVars

\* Mutant of Close: the socket is marked closed and ctx.subscriptions emptied,
\* but the iterators are not returned, so their listeners stay.
Close_NoReturn(c) ==
  /\ executing = NoReq /\ conn[c] = "open"
  /\ conn' = [conn EXCEPT ![c] = "closed"]
  /\ subStatus' = [s \in Slots |-> IF s[1] = c THEN "none" ELSE subStatus[s]]
  /\ Audit("close", c, "none", "none", conn[c])
  /\ UNCHANGED << storeVars, busVars, iterTopic, startSeq, received, commitLog, reqVars,
                  executing, writes >>
  /\ UNCHANGED << connParams, linkVars, clientVars, phase >>
  /\ UNCHANGED heapVars

\* Mutant of Close: the clean-up runs again on a socket that is closed already.
Close_AlwaysReturn(c) ==
  /\ executing = NoReq
  /\ conn' = [conn EXCEPT ![c] = "closed"]
  /\ ReturnIterators({s \in Slots : s[1] = c}, "closed")
  /\ Audit("close", c, "none", "none", conn[c])
  /\ UNCHANGED << storeVars, published, commitLog, reqVars, executing, writes >>
  /\ UNCHANGED << connParams, linkVars, clientVars, phase >>
  /\ UNCHANGED heapVars

\* Mutant of Close: the close handler runs on another thread and does not wait
\* for the resolver on the stack.
Close_Preempting(c) ==
  /\ IF conn[c] = "open"
       THEN /\ conn' = [conn EXCEPT ![c] = "closed"]
            /\ ReturnIterators({s \in Slots : s[1] = c}, "closed")
       ELSE UNCHANGED << conn, listeners, pushQueue, pullWaiting, sending, subVars, received >>
  /\ Audit("close", c, "none", "none", conn[c])
  /\ UNCHANGED << storeVars, published, commitLog, reqVars, executing, writes >>
  /\ UNCHANGED << connParams, linkVars, clientVars, phase >>
  /\ UNCHANGED heapVars

\* socket.close() / the socket's close event for connection c: graphql-ws
\* empties ctx.subscriptions and returns every iterator of the connection
\* before the close handler completes. On a socket that is closed already the
\* call returns at once: there is no ctx left to clean up.
Close(c) ==
  /\ executing = NoReq
  /\ IF conn[c] = "open"
       THEN /\ conn' = [conn EXCEPT ![c] = "closed"]
            /\ ReturnIterators({s \in Slots : s[1] = c}, "closed")
       ELSE UNCHANGED << conn, listeners, pushQueue, pullWaiting, sending, subVars, received >>
  /\ Audit("close", c, "none", "none", conn[c])
  /\ UNCHANGED << storeVars, published, commitLog, reqVars, executing, writes >>
  /\ UNCHANGED << connParams, linkVars, clientVars, phase >>
  /\ UNCHANGED heapVars

Next ==
  \/ \E r \in Reqs, input \in CreateInputs : CreateUser(r, input)
  \/ \E r \in Reqs, id \in IdArgs, input \in UpdateInputs : UpdateUser(r, id, input)
  \/ \E r \in Reqs, id \in IdArgs : DeleteUser(r, id)
  \/ \E r \in Reqs : PublishStep(r)
  \/ \E r \in Reqs : ReturnStep(r)
  \/ \E r \in Reqs : Respond(r)
  \/ \E r \in Reqs : QueryUsers(r)
  \/ \E c \in Conns, params \in AppJsxParams : Connect(c, params)
  \/ \E c \in Conns, id \in SubIds, field \in SubscriptionFields \cup {UnknownField} :
       Subscribe(c, id, field)
  \/ \E s \in Slots : SocketSendDone(s)
  \/ \E s \in Slots : Complete(s)
  \/ \E c \in Conns : Close(c)

Spec == Init /\ [][Next]_vars

\* ------------------------------------------------------- derived quantities
\* The event in flight to the client of slot s, as a sequence of length 0 or 1.
InFlight(s) == IF sending[s] = NoEvent THEN << >> ELSE << sending[s] >>

\* Every event the bus has handed to the subscription of slot s, in the order
\* the client gets them: received, then in flight, then queued.
Stream(s) == received[s] \o InFlight(s) \o pushQueue[s]

\* Events accepted for slot s that its client has not received yet.
Backlog(s) == Len(InFlight(s)) + Len(pushQueue[s])

\* The slots that hold a live subscription.
Subscribed == {s \in Slots : subStatus[s] = "subscribed"}

IsPrefix(a, b) == Len(a) <= Len(b) /\ \A i \in 1..Len(a) : a[i] = b[i]

\* ------------------------------------------------------------------ claims

\* C1: a subscriber registered on a topic gets one event per successful write
\* on that topic since it registered, in strictly increasing sequence order
\* with no gap and no duplicate: the events handed to it are exactly the
\* committed writes number startSeq+1, startSeq+2, ... of the topic, in order.
C1_EveryEventInOrder ==
  \A s \in Subscribed :
    LET t == iterTopic[s] IN
      /\ Len(Stream(s)) = Len(published[t]) - startSeq[s]
      /\ \A i \in 1..Len(Stream(s)) :
           /\ Stream(s)[i].seq = startSeq[s] + i
           /\ Stream(s)[i].topic = t
           /\ Stream(s)[i].payload = commitLog[t][startSeq[s] + i]

\* C1 witness: a subscriber registered before the first write has received two
\* events of its topic.
C1_Witness ==
  \E s \in Subscribed : startSeq[s] = 0 /\ Len(received[s]) >= 2

\* C2: a subscriber never gets an event that was published before it
\* registered: every event handed to it has a sequence number above the
\* number of events its topic had published at registration.
C2_NoReplay ==
  \A s \in Slots : \A i \in 1..Len(Stream(s)) : Stream(s)[i].seq > startSeq[s]

\* C2 witness: a subscriber that registered after a write on its topic has
\* received a later event of the topic.
C2_Witness ==
  \E s \in Subscribed : startSeq[s] >= 1 /\ received[s] # << >>

\* C3: once a connection is closed none of its subscriptions is registered on
\* any topic, and nothing is queued, in flight or delivered for them, whatever
\* is published afterwards.
C3_ClosedDeregistered ==
  \A s \in Slots :
    conn[s[1]] = "closed" =>
      /\ \A t \in Topics : s \notin listeners[t]
      /\ subStatus[s] # "subscribed"
      /\ Stream(s) = << >>
      /\ ~pullWaiting[s]

\* C3 witness: connection c1 was closed while both of its subscriptions were
\* live, and a write has since published on the topic of one of them.
C3_Witness ==
  /\ conn["c1"] = "closed"
  /\ \A s \in Slots : s[1] = "c1" => subStatus[s] = "closed"
  /\ \E r \in Reqs, s \in Slots :
       s[1] = "c1" /\ pc[r] = "return" /\ op[r].topic = iterTopic[s]

\* C4: a subscribe naming a field outside the Subscription type is answered
\* with an error and leaves every topic's listener set and every queue as
\* they were.
C4_UnknownTopicNoRegistration ==
  [][\A s \in Slots :
       (subStatus'[s] = "error" /\ subStatus[s] # "error") =>
         /\ listeners' = listeners
         /\ pushQueue' = pushQueue
         /\ pullWaiting' = pullWaiting
         /\ iterTopic'[s] = "none"]_vars

\* C4 witness: a subscribe to an unknown field was rejected while another
\* subscription is registered.
C4_Witness ==
  \E s \in Slots : subStatus[s] = "error" /\ \E t \in Topics : listeners[t] # {}

\* C5: events reach only subscribers of the topic of the write that made
\* them: a topic's listeners are exactly the live subscriptions of that topic
\* and every event handed to a subscription carries the subscription's topic.
C5_TopicIsolation ==
  /\ \A t \in Topics : listeners[t] = {s \in Subscribed : iterTopic[s] = t}
  /\ \A s \in Slots : \A i \in 1..Len(Stream(s)) : Stream(s)[i].topic = iterTopic[s]
  /\ \A s \in Subscribed :
       Len(Stream(s)) <= Len(published[iterTopic[s]]) - startSeq[s]

\* C5 witness: with one subscriber on USER_UPDATED and one on USER_DELETED, a
\* create and an update were published: the first got the update only, the
\* second nothing.
C5_Witness ==
  \E a, b \in Subscribed :
    /\ iterTopic[a] = "USER_UPDATED" /\ iterTopic[b] = "USER_DELETED"
    /\ published["USER_CREATED"] # << >> /\ published["USER_UPDATED"] # << >>
    /\ Len(Stream(a)) = 1 /\ Stream(b) = << >>

\* C6: when a write's success result is ready for its caller, the write's
\* event has already been handed to every subscription that was registered on
\* the topic when it was published.
C6_QueuedBeforeResult ==
  \A r \in Reqs :
    (pc[r] = "resolved" /\ result[r].ok /\ op[r].topic # "none") =>
      /\ evt[r] >= 1
      /\ \A s \in listeners[op[r].topic] :
           startSeq[s] < evt[r] => startSeq[s] + Len(Stream(s)) >= evt[r]

\* C6 witness: a write's result is ready and two subscriptions were registered
\* on its topic when it published.
C6_Witness ==
  \E r \in Reqs :
    /\ pc[r] = "resolved" /\ result[r].ok /\ op[r].topic # "none"
    /\ \E a, b \in listeners[op[r].topic] :
         a # b /\ startSeq[a] < evt[r] /\ startSeq[b] < evt[r]

\* C7 as the specification states it: a subscriber's queue is bounded and the
\* subscriber is dropped on overflow, so its backlog stays below the number of
\* events a behaviour publishes.
C7_QueueBounded ==
  \A s \in Subscribed : Backlog(s) < MaxWrites

\* C7 amended: the queue has no bound: every publish appends the event to the
\* backlog of every subscriber of the topic, whatever its length, and leaves
\* each of them registered.
C7_UnboundedNeverDropped ==
  [][\A t \in Topics :
       published'[t] # published[t] =>
         \A s \in listeners[t] :
           /\ s \in listeners'[t]
           /\ subStatus'[s] = "subscribed"
           /\ Len(InFlight(s)') + Len(pushQueue'[s]) = Backlog(s) + 1]_vars

\* C7 witness: a subscriber whose client has received nothing holds a backlog
\* of two events.
C7_Witness ==
  \E s \in Subscribed : received[s] = << >> /\ Backlog(s) >= 2

\* C8: updateUser or deleteUser on an id that is not in the store ends with the
\* not-found error, publishes nothing and leaves the store, nextUserId, the
\* listeners and every queue unchanged.
C8_FailedWriteNoEffect ==
  [][\A r \in Reqs :
       ( /\ pc[r] = "idle" /\ pc'[r] # "idle"
         /\ op'[r].name \in {"updateUser", "deleteUser"}
         /\ FindIndex(users, op'[r].id) = 0 ) =>
           /\ result'[r] = NotFoundError
           /\ pc'[r] = "resolved"
           /\ executing' = NoReq
           /\ evt'[r] = 0
           /\ UNCHANGED << users, nextUserId, published, commitLog, listeners,
                           pushQueue, sending, pullWaiting >>]_vars

\* C8 witness: a deleteUser failed with not-found while a subscription is
\* registered on USER_DELETED.
C8_Witness ==
  \E r \in Reqs :
    /\ pc[r] = "resolved" /\ result[r] = NotFoundError /\ op[r].name = "deleteUser"
    /\ listeners["USER_DELETED"] # {}

\* C9: in every state another operation can observe (no resolver is on the
\* stack) each committed store change has been published and handed to every
\* subscription registered on its topic.
C9_CommitPublishAtomic ==
  executing = NoReq =>
    /\ \A t \in Topics : published[t] = commitLog[t]
    /\ \A s \in Subscribed : startSeq[s] + Len(Stream(s)) = Len(commitLog[iterTopic[s]])

\* C9 witness: a query has read the store after a delete changed it, and the
\* delete's event is with a subscriber.
C9_Witness ==
  /\ executing = NoReq
  /\ \E r \in Reqs :
       pc[r] = "resolved" /\ op[r].name = "users" /\ Len(result[r].value) < Len(InitUsers)
  /\ \E s \in Subscribed : iterTopic[s] = "USER_DELETED" /\ Stream(s) # << >>

\* C10: a publish comes strictly after its store commit: at every moment the
\* events published on a topic are a prefix of the writes committed on it, at
\* most the running resolver's commit is still unpublished, and a published
\* event is the payload of the commit with the same number.
C10_PublishAfterCommit ==
  /\ \A t \in Topics :
       /\ IsPrefix(published[t], commitLog[t])
       /\ Len(commitLog[t]) - Len(published[t]) <= 1
  /\ \A r \in Reqs :
       /\ pc[r] = "publish" =>
            commitLog[op[r].topic] = Append(published[op[r].topic], op[r].payload)
       /\ pc[r] = "return" => commitLog[op[r].topic][evt[r]] = op[r].payload

\* C10 witness: the second write on a topic is committed and its publish is
\* still to come.
C10_Witness ==
  \E r \in Reqs :
    pc[r] = "publish" /\ Len(commitLog[op[r].topic]) = 2 /\ Len(published[op[r].topic]) = 1

\* ============================================================== client link
\* The definitions a parsed document can hold: an operation of one of the
\* three types, or a fragment (which has no `operation` property).
DefinitionNodes ==
  { [kind |-> "OperationDefinition", operation |-> o] : o \in {"query", "mutation", "subscription"} }
    \cup { [kind |-> "FragmentDefinition", operation |-> Undefined] }

\* Documents of at most MaxDefs definitions.
Documents == UNION { [1..n -> DefinitionNodes] : n \in 0..MaxDefs }

OperationsOf(d) == {i \in 1..Len(d) : d[i].kind = "OperationDefinition"}
FragmentsOf(d) == {i \in 1..Len(d) : d[i].kind = "FragmentDefinition"}
First(S) == CHOOSE i \in S : \A j \in S : i <= j

\* What stands for getMainDefinition throwing.
Thrown == [kind |-> "thrown", operation |-> Undefined]

\* Mutant of GetMainDefinition: no fallback to the first fragment.
GetMainDefinition_OperationsOnly(d) ==
  IF Cardinality(OperationsOf(d)) > 1 THEN Thrown
  ELSE IF OperationsOf(d) # {} THEN d[First(OperationsOf(d))]
  ELSE Thrown

\* getMainDefinition(query) of @apollo/client/utilities: checkDocument throws
\* on a document with more than one operation; otherwise the operation
\* definition if there is one, else the first fragment definition, else a throw.
GetMainDefinition(d) ==
  IF Cardinality(OperationsOf(d)) > 1 THEN Thrown
  ELSE IF OperationsOf(d) # {} THEN d[First(OperationsOf(d))]
  ELSE IF FragmentsOf(d) # {} THEN d[First(FragmentsOf(d))]
  ELSE Thrown

\* Mutant of SplitTest: everything that is not a query goes to the left link.
SplitTest_NotQuery(d) ==
  LET definition == GetMainDefinition(d) IN
    definition.kind = "OperationDefinition" /\ definition.operation # "query"

\* split's test function: definition.kind === 'OperationDefinition' &&
\* definition.operation === 'subscription'.
SplitTest(d) ==
  LET definition == GetMainDefinition(d) IN
    definition.kind = "OperationDefinition" /\ definition.operation = "subscription"

serverVars == << users, nextUserId, listeners, conn, subStatus, iterTopic, pushQueue,
                 pullWaiting, sending, received, startSeq, published, commitLog,
                 pc, op, result, evt, executing, writes, connParams,
                 heap, userObj, objLog, phase >>

\* splitLink.request(operation): split(test, wsLink, httpLink) forwards the
\* operation to wsLink when test returns true and to httpLink otherwise; a
\* throw inside test forwards it to neither.
SplitRequest ==
  /\ linkState = "pending"
  /\ IF GetMainDefinition(doc) = Thrown
       THEN /\ linkState' = "threw"
            /\ sentOn' = {}
       ELSE /\ linkState' = "sent"
            /\ sentOn' = IF SplitTest(doc) THEN {"ws"} ELSE {"http"}
  /\ UNCHANGED << doc, serverVars, auditVars, clientVars >>

\* An operation with any document in the client's hand, the server at rest.
RouteInit ==
  /\ ServerInit
  /\ ClientInit
  /\ doc \in Documents
  /\ linkState = "pending"
  /\ sentOn = {}
  /\ audit = FALSE
  /\ calls = 0
  /\ lastCall = NoCall

RouteNext == SplitRequest

RouteSpec == RouteInit /\ [][RouteNext]_vars

\* C11: an operation whose main definition is an operation definition is
\* forwarded to exactly one link, decided by the operation type alone: a
\* subscription goes to the WebSocket link, a query or a mutation to the HTTP
\* link, and none goes to both.
C11_SplitByOperation ==
  (linkState # "pending" /\ Cardinality(OperationsOf(doc)) = 1) =>
    LET operation == doc[First(OperationsOf(doc))].operation IN
      /\ linkState = "sent"
      /\ Cardinality(sentOn) = 1
      /\ (operation = "subscription") <=> (sentOn = {"ws"})
      /\ (operation \in {"query", "mutation"}) <=> (sentOn = {"http"})

\* A subscription that comes after a fragment in its document went to the
\* WebSocket link only.
C11_Witness ==
  /\ linkState = "sent"
  /\ Len(doc) >= 2
  /\ doc[1].kind = "FragmentDefinition"
  /\ Cardinality(OperationsOf(doc)) = 1
  /\ doc[First(OperationsOf(doc))].operation = "subscription"
  /\ sentOn = {"ws"}

\* C12 as the specification states it: an operation whose main definition is
\* not an operation definition is rejected before the router, so that it is
\* forwarded to neither link.
C12_MalformedRejected ==
  (linkState # "pending" /\ Cardinality(OperationsOf(doc)) # 1) =>
    (linkState = "threw" /\ sentOn = {})

\* C12: the client rejects nothing by itself. A document whose main definition
\* is a fragment makes the test false and is forwarded to the HTTP link, never
\* to the WebSocket link; only a document for which getMainDefinition throws
\* (no definition at all, or more than one operation) is forwarded to neither.
C12_FragmentGoesToHttp ==
  (linkState # "pending") =>
    /\ (OperationsOf(doc) = {} /\ FragmentsOf(doc) # {}) =>
         (linkState = "sent" /\ sentOn = {"http"})
    /\ (doc = << >> \/ Cardinality(OperationsOf(doc)) > 1) <=> (linkState = "threw")
    /\ (linkState = "threw") => (sentOn = {})
    /\ (OperationsOf(doc) = {}) => ("ws" \notin sentOn)

\* A document of fragments only has been forwarded to the HTTP link.
C12_Witness ==
  /\ linkState = "sent"
  /\ doc # << >>
  /\ OperationsOf(doc) = {}
  /\ sentOn = {"http"}

\* ====================================================== streaming protocol
\* The streaming side with the call history kept: main.jsx's client
\* (connectionParams with or without a token) connects, subscribes, completes
\* and closes, while updateUser requests publish events to the subscribers.
AuditInit ==
  /\ ServerInit
  /\ LinkIdle
  /\ ClientInit
  /\ audit = TRUE
  /\ calls = 0
  /\ lastCall = NoCall

AuditNext ==
  \/ \E c \in Conns, params \in MainJsxParams : Connect(c, params)
  \/ \E c \in Conns, id \in SubIds, field \in SubscriptionFields \cup {UnknownField} :
       Subscribe(c, id, field)
  \/ \E s \in Slots : Complete(s)
  \/ \E c \in Conns : Close(c)
  \/ \E r \in Reqs, id \in IdArgs, input \in UpdateInputs : UpdateUser(r, id, input)
  \/ \E r \in Reqs : PublishStep(r)
  \/ \E r \in Reqs : ReturnStep(r)
  \/ \E r \in Reqs : Respond(r)
  \/ \E s \in Slots : SocketSendDone(s)

AuditSpec == AuditInit /\ [][AuditNext]_vars

HttpAuthorization(r) == Missing

\* C14 as the specification states it: with a missing credential a streaming
\* connection is closed and holds no subscriber, and a request/response call
\* ends in an error without reaching the store.
C14_AuthErrorOnMissingCredential ==
  /\ \A c \in Conns : (connParams[c] = Missing) => (conn[c] = "closed")
  /\ \A s \in Slots : (connParams[s[1]] = Missing) => (\A t \in Topics : s \notin listeners[t])
  /\ \A r \in Reqs : (HttpAuthorization(r) = Missing /\ pc[r] # "idle") =>
       (pc[r] = "resolved" /\ ~result[r].ok /\ users = InitUsers)

C16_SubscribeIdempotent ==
  [][\A t \in Topics, c \in Conns :
       (\E s \in listeners[t] : s[1] = c) =>
         ({s \in listeners'[t] : s[1] = c} \subseteq listeners[t])]_vars

\* C16: unsubscribing is idempotent, subscribing is not. After a Complete the
\* subscription listens on no topic, and a Complete that finds no subscription
\* under its id changes nothing and closes nothing; every Subscribe that
\* succeeds adds one more subscriber to its topic, also when the connection
\* has one there already.
C16_UnsubscribeIdempotent ==
  [][(calls' # calls) =>
       LET s == << lastCall'.conn, lastCall'.id >> IN
         /\ (lastCall'.kind = "complete") =>
              /\ \A t \in Topics : s \notin listeners'[t]
              /\ (lastCall'.found # "subscribed") => UNCHANGED serverVars
         /\ (lastCall'.kind = "subscribe" /\ subStatus'[s] = "subscribed") =>
              /\ s \notin listeners[iterTopic'[s]]
              /\ listeners'[iterTopic'[s]] = listeners[iterTopic'[s]] \cup {s}]_vars

\* A Complete for an id under which the open connection holds no subscription
\* (as after an earlier Complete), while its other subscription goes on.
C16_Witness ==
  /\ lastCall.kind = "complete" /\ lastCall.found = "none"
  /\ conn[lastCall.conn] = "open"
  /\ \E s \in Slots : s[1] = lastCall.conn /\ s[2] # lastCall.id /\ subStatus[s] = "subscribed"

\* ================================================= subscribers and failures
\* C17 as the specification states it: a topic holds at most one subscriber
\* per connection.
C17_OneSubscriberPerConnection ==
  \A t \in Topics, c \in Conns : Cardinality({s \in listeners[t] : s[1] = c}) <= 1

\* C17: a topic holds one subscriber per subscription, not per connection.
\* Each subscription listens on at most one topic and gets each event of it
\* once; a connection with two subscriptions on one topic has two subscribers
\* there, and each of the two gets every event published since it registered,
\* so that the connection gets the event once per subscribe call.
C17_OneSubscriberPerSubscription ==
  /\ \A s \in Slots : Cardinality({t \in Topics : s \in listeners[t]}) <= 1
  /\ \A s \in Subscribed :
       /\ s \in listeners[iterTopic[s]]
       /\ \A i, j \in 1..Len(Stream(s)) : (i # j) => (Stream(s)[i].seq # Stream(s)[j].seq)
  /\ \A a, b \in Subscribed :
       (a # b /\ a[1] = b[1] /\ iterTopic[a] = iterTopic[b]) =>
         /\ Len(Stream(a)) = Len(published[iterTopic[a]]) - startSeq[a]
         /\ Len(Stream(b)) = Len(published[iterTopic[b]]) - startSeq[b]

\* Connection c1 subscribed to userUpdated twice and its client has received
\* the same event on both subscriptions.
C17_Witness ==
  /\ << "c1", "s1" >> \in listeners["USER_UPDATED"]
  /\ << "c1", "s2" >> \in listeners["USER_UPDATED"]
  /\ received[<< "c1", "s1" >>] # << >>
  /\ received[<< "c1", "s2" >>] # << >>
  /\ received[<< "c1", "s1" >>][1] = received[<< "c1", "s2" >>][1]

\* C18: every listener registered on a topic is the iterator of a live
\* subscription to that topic on a connection that is open; the turn that
\* closes a connection removes its listeners before any other handler runs.
C18_SubscribersOnOpenConnections ==
  \A t \in Topics : \A s \in listeners[t] :
    /\ conn[s[1]] = "open"
    /\ subStatus[s] = "subscribed"
    /\ iterTopic[s] = t

\* Connection c1 was closed with a live subscription, and the subscriber of
\* the open connection c2 has since been handed an event.
C18_Witness ==
  /\ conn["c1"] = "closed"
  /\ \E s \in Slots : s[1] = "c1" /\ subStatus[s] = "closed"
  /\ conn["c2"] = "open"
  /\ \E t \in Topics : << "c2", "s1" >> \in listeners[t]
  /\ Stream(<< "c2", "s1" >>) # << >>

\* C19 as the specification states it: the publish that overflows the queue
\* of a subscriber (a backlog that would reach the number of events a
\* behaviour publishes) drops that subscriber, and only it: the other
\* subscribers of the topic get the event, all connections stay open and the
\* subscriptions on other topics stay registered.
C19_OverflowDropIsolated ==
  [][\A t \in Topics :
       published'[t] # published[t] =>
         \A s \in listeners[t] :
           (Backlog(s) + 1 >= MaxWrites) =>
             /\ s \notin listeners'[t]
             /\ conn' = conn
             /\ \A u \in Topics \ {t} : listeners'[u] = listeners[u]
             /\ \A x \in listeners[t] \ {s} :
                  Len(Stream(x)') = Len(Stream(x)) + 1]_vars

\* C19: no subscriber is dropped, so there is nothing to isolate a drop from;
\* a slow subscriber is isolated all the same. A publish, whatever the
\* backlogs, hands the event to every subscriber of the topic and to no
\* other, leaves every listener, subscription and connection as it was, and
\* the write goes on to return its result.
C19_SlowSubscriberIsolated ==
  [][\A r \in Reqs :
       /\ (pc[r] = "publish" /\ pc'[r] # "publish") =>
            LET t == op[r].topic IN
              /\ pc'[r] = "return"
              /\ listeners' = listeners /\ conn' = conn /\ subStatus' = subStatus
              /\ \A s \in listeners[t] :
                   Stream(s)' = Append(Stream(s), [topic |-> t, seq |-> Len(published[t]) + 1,
                                                    payload |-> op[r].payload])
              /\ \A s \in Slots \ listeners[t] : Stream(s)' = Stream(s)
       /\ (pc[r] = "return" /\ pc'[r] # "return") =>
            (pc'[r] = "resolved" /\ result'[r].ok /\ listeners' = listeners /\ conn' = conn)]_vars

\* The client of c1's userUpdated subscription has received nothing and two
\* events wait for it; c2's subscriber of the same topic has received both,
\* c1's subscription to userDeleted is still registered, and the write that
\* published the second event has returned its result.
C19_Witness ==
  /\ << "c1", "s1" >> \in listeners["USER_UPDATED"]
  /\ received[<< "c1", "s1" >>] = << >> /\ Backlog(<< "c1", "s1" >>) >= 2
  /\ << "c2", "s1" >> \in listeners["USER_UPDATED"]
  /\ Len(received[<< "c2", "s1" >>]) >= 2
  /\ << "c1", "s2" >> \in listeners["USER_DELETED"]
  /\ conn["c1"] = "open"
  /\ \E r \in Reqs : pc[r] = "resolved" /\ result[r].ok /\ op[r].topic = "USER_UPDATED"

C21_PublishSnapshot ==
  [][/\ (executing # NoReq) =>
          (listeners' = listeners /\ subStatus' = subStatus /\ conn' = conn)
     /\ \A r \in Reqs :
          (pc[r] = "publish" /\ pc'[r] # "publish") =>
            ({s \in Slots : Stream(s)' # Stream(s)} = listeners[op[r].topic])]_vars

\* A write on USER_UPDATED has just published: a subscription that registered
\* after an earlier event of the topic got the new event, and a subscription
\* of the topic whose connection was closed before got nothing.
C21_Witness ==
  \E r \in Reqs :
    /\ pc[r] = "return" /\ op[r].topic = "USER_UPDATED"
    /\ \E a \in listeners["USER_UPDATED"] :
         /\ startSeq[a] >= 1
         /\ Stream(a) # << >>
         /\ Stream(a)[Len(Stream(a))].seq = evt[r]
    /\ \E b \in Slots :
         subStatus[b] = "closed" /\ iterTopic[b] = "USER_UPDATED" /\ Stream(b) = << >>

\* ================================================================ the store
\* The store under requests of every kind with the richer inputs, and one
\* userUpdated subscriber (connection c2) whose client may be slow.
StoreNext ==
  \/ \E r \in Reqs, input \in CreateInputs : CreateUser(r, input)
  \/ \E r \in Reqs, id \in StoreIdArgs, input \in StoreUpdateInputs : UpdateUser(r, id, input)
  \/ \E r \in Reqs, id \in StoreIdArgs : DeleteUser(r, id)
  \/ \E r \in Reqs : PublishStep(r)
  \/ \E r \in Reqs : ReturnStep(r)
  \/ \E r \in Reqs : Respond(r)
  \/ \E r \in Reqs : QueryUsers(r)
  \/ \E r \in Reqs, id \in StoreIdArgs : QueryUser(r, id)
  \/ \E r \in Reqs, department \in DepartmentArgs : QueryUsersByDepartment(r, department)
  \/ \E params \in AppJsxParams : Connect("c2", params)
  \/ Subscribe("c2", "s1", "userUpdated")
  \/ SocketSendDone(<< "c2", "s1" >>)

StoreSpec == Init /\ [][StoreNext]_vars

\* The three Query resolvers.
ReadOps == {"users", "user", "usersByDepartment"}

\* C23: a Read (users, user, usersByDepartment) has no side effect, whether
\* it succeeds or fails: the step in which the resolver runs leaves the user
\* list, nextUserId, the stored objects, the topics' listeners and sequence
\* counters, every subscription and connection and every queued event as they
\* were; users answers with the list, user with the stored record of that id
\* or the not-found error.
C23_ReadsHaveNoEffect ==
  [][\A r \in Reqs :
       (pc[r] = "idle" /\ pc'[r] = "resolved" /\ op'[r].name \in ReadOps) =>
         /\ users' = users /\ nextUserId' = nextUserId
         /\ heap' = heap /\ userObj' = userObj /\ objLog' = objLog
         /\ listeners' = listeners /\ published' = published /\ commitLog' = commitLog
         /\ conn' = conn /\ subStatus' = subStatus /\ iterTopic' = iterTopic
         /\ pushQueue' = pushQueue /\ sending' = sending /\ received' = received
         /\ writes' = writes
         /\ (op'[r].name = "users" => result'[r] = [ok |-> TRUE, value |-> users])
         /\ (op'[r].name = "user" =>
               IF \E i \in 1..Len(users) : users[i].id = op'[r].id
                 THEN /\ result'[r].ok
                      /\ \E i \in 1..Len(users) : users[i] = result'[r].value
                      /\ result'[r].value.id = op'[r].id
                 ELSE result'[r] = NotFoundError)]_vars

\* A usersByDepartment("SALES") answered with the users of department "Sales"
\* after a write put a user into that department.
C23_Witness ==
  \E r \in Reqs :
    /\ pc[r] = "resolved" /\ op[r].name = "usersByDepartment" /\ op[r].id = "SALES"
    /\ result[r].ok /\ Len(result[r].value) >= 1
    /\ \A i \in 1..Len(result[r].value) : result[r].value[i].department = "Sales"
    /\ writes >= 1

\* The payload a subscriber gets for a queued event: pubsub hands the
\* iterator the object the resolver published, and the subscription loop
\* serializes it when it takes the event from pushQueue. deleteUser
\* publishes the id string itself.
Serialized(e) ==
  IF objLog[e.topic][e.seq] = NoObject THEN e.payload ELSE heap[objLog[e.topic][e.seq]]

\* C24: an event is immutable once published: every object a createUser or
\* updateUser published still holds the record of its commit, whatever
\* update or delete came later, so each event waiting in a subscriber's queue
\* serializes to the record (or deleted id) as it was at commit time.
C24_EventImmutable ==
  /\ \A t \in {"USER_CREATED", "USER_UPDATED"} :
       \A k \in 1..Len(objLog[t]) : heap[objLog[t][k]] = commitLog[t][k]
  /\ \A s \in Slots :
       \A i \in 1..Len(pushQueue[s]) :
         Serialized(pushQueue[s][i]) = commitLog[pushQueue[s][i].topic][pushQueue[s][i].seq]

\* A userUpdated event still waiting in a slow subscriber's queue while a
\* later update has already changed the same user in the store.
C24_Witness ==
  \E s \in Slots :
    \E i \in 1..Len(pushQueue[s]) :
      /\ pushQueue[s][i].topic = "USER_UPDATED"
      /\ \E j \in 1..Len(users) :
           /\ users[j].id = pushQueue[s][i].payload.id
           /\ users[j] # Serialized(pushQueue[s][i])

\* C25: after any sequence of createUser, updateUser and deleteUser every
\* stored user has a non-null name, age, salary and department, as type User
\* declares (String!, Int!, Float!, String!). The code does not keep this:
\* updateUser spreads an explicit null of its input into the stored record.
C25_NoNullField ==
  \A i \in 1..Len(users) :
    /\ users[i].name # NullString
    /\ users[i].age # NullNumber
    /\ users[i].salary # NullNumber
    /\ users[i].department # NullString

\* The integer an id string stands for (the inverse of toString on the ids
\* below 100).
NumberOf(str) == CHOOSE n \in 0..99 : IdToString(n) = str

\* Every id the program ever gave a user: the sample users' and, in order,
\* those createUser assigned.
AssignedIds ==
  [i \in 1..(Len(InitUsers) + Len(commitLog["USER_CREATED"])) |->
     IF i <= Len(InitUsers) THEN InitUsers[i].id
     ELSE commitLog["USER_CREATED"][i - Len(InitUsers)].id]

\* C26: after any sequence of createUser, updateUser and deleteUser no two
\* stored users have the same id, every stored id is strictly less than
\* nextUserId, and no id is assigned twice, also after its user was deleted.
C26_IdsUniqueAndFresh ==
  /\ \A i, j \in 1..Len(users) : users[i].id = users[j].id => i = j
  /\ \A i \in 1..Len(users) : NumberOf(users[i].id) < nextUserId
  /\ \A i, j \in 1..Len(AssignedIds) : AssignedIds[i] = AssignedIds[j] => i = j

\* Two creates with a delete of the first created user in between: the
\* second create did not reuse the freed id.
C26_Witness ==
  /\ Len(commitLog["USER_CREATED"]) = 2
  /\ Len(commitLog["USER_DELETED"]) = 1
  /\ commitLog["USER_DELETED"][1] = commitLog["USER_CREATED"][1].id
  /\ \E i \in 1..Len(users) : users[i].id = commitLog["USER_CREATED"][2].id

\* C27: a successful updateUser(id, input) changes only the fields present
\* in input on the one user with that id: its id and its fields absent from
\* input, every other user, the order and length of the store and nextUserId
\* are unchanged; and the record the resolver returns is the payload it
\* published on USER_UPDATED.
C27_UpdateFrame ==
  [][/\ \A r \in Reqs, id \in StoreIdArgs, input \in StoreUpdateInputs :
          (UpdateUser(r, id, input) /\ pc'[r] = "publish") =>
            LET userIndex == FindIndex(users, id) IN
              /\ Len(users') = Len(users)
              /\ \A j \in 1..Len(users) : j # userIndex => users'[j] = users[j]
              /\ users'[userIndex].id = id
              /\ DOMAIN users'[userIndex] = DOMAIN users[userIndex]
              /\ \A f \in DOMAIN users[userIndex] :
                   users'[userIndex][f] =
                     IF f \in DOMAIN input THEN input[f] ELSE users[userIndex][f]
              /\ nextUserId' = nextUserId
     /\ \A r \in Reqs :
          (pc[r] = "return" /\ pc'[r] = "resolved" /\ op[r].name = "updateUser") =>
            /\ result'[r].ok
            /\ result'[r].value =
                 published["USER_UPDATED"][Len(published["USER_UPDATED"])]
            /\ \E j \in 1..Len(users) : users[j] = result'[r].value]_vars

\* An updateUser of the created user 4 with two fields has returned: the
\* store holds four users, user 4 with the new name and age and its old
\* department.
C27_Witness ==
  \E r \in Reqs :
    /\ pc[r] = "resolved" /\ op[r].name = "updateUser" /\ op[r].id = "4" /\ result[r].ok
    /\ Len(users) = 4
    /\ users[4] = [id |-> "4", name |-> "Zed", age |-> 31, salary |-> 50000, department |-> "Sales"]
    /\ result[r].value = users[4]

\* C28: a Subscribe on a connection without a resolved identity is accepted
\* and registers a subscriber in the same way for each of the three fields:
\* after the server handled a Subscribe for userCreated, userUpdated or
\* userDeleted, the slot holds a subscription listening on the field's
\* trigger. The code does not do this for userCreated, whose resolver
\* destructures the undefined context.
C28_SubscribeSameForAllTopics ==
  (lastCall.kind = "subscribe" /\ lastCall.field \in SubscriptionFields) =>
    /\ subStatus[<< lastCall.conn, lastCall.id >>] = "subscribed"
    /\ << lastCall.conn, lastCall.id >> \in listeners[TriggerOf(lastCall.field)]

\* ======================================================== the UserList client
\* The clients that run App.jsx's UserList component.
UserLists == {"c1"}

RECURSIVE SumLen(_, _)
SumLen(f, S) ==
  IF S = {} THEN 0
  ELSE LET s == CHOOSE x \in S : TRUE IN Len(f[s]) + SumLen(f, S \ {s})

\* How many subscription events client c has received: each one calls the
\* onData of its useSubscription hook.
EventsSeen(c) == SumLen(received, {s \in Slots : s[1] = c})

\* useQuery(GET_ALL_USERS) at mount, and the refetch() each onData calls: the
\* users query runs on the server and the component displays its result.
Refetch(c) ==
  /\ executing = NoReq /\ phase = "running"
  /\ asked[c] # NoUserList
  /\ fetchedAt[c] < EventsSeen(c)
  /\ shown' = [shown EXCEPT ![c] = users]
  /\ fetchedAt' = [fetchedAt EXCEPT ![c] = EventsSeen(c)]
  /\ UNCHANGED << serverVars, linkVars, auditVars, asked >>

\* useSubscription(USER_CREATED_SUBSCRIPTION / USER_UPDATED_... / USER_DELETED_...):
\* each hook sends the Subscribe for its field once.
UseSubscription(c, id, field) ==
  /\ field \notin asked[c]
  /\ Subscribe(c, id, field)

UserListInit ==
  /\ ServerInit
  /\ LinkIdle
  /\ shown = [c \in Conns |-> << >>]
  /\ fetchedAt = [c \in Conns |-> -1]
  /\ asked = [c \in Conns |-> IF c \in UserLists THEN {} ELSE NoUserList]
  /\ audit = FALSE
  /\ calls = 0
  /\ lastCall = NoCall

\* A UserList client that connects, sends the Subscribe of each of its three
\* useSubscription hooks once and stays connected, while some other client
\* writes over HTTP.
ClientNext ==
  \/ \E c \in UserLists, params \in AppJsxParams : Connect(c, params)
  \/ \E c \in UserLists, id \in SubIds, field \in SubscriptionFields :
       UseSubscription(c, id, field)
  \/ \E s \in {x \in Slots : x[1] \in UserLists} : SocketSendDone(s)
  \/ \E c \in UserLists : Refetch(c)
  \/ \E r \in Reqs, input \in CreateInputs : CreateUser(r, input)
  \/ \E r \in Reqs, id \in IdArgs, input \in UpdateInputs : UpdateUser(r, id, input)
  \/ \E r \in Reqs, id \in IdArgs : DeleteUser(r, id)
  \/ \E r \in Reqs : PublishStep(r)
  \/ \E r \in Reqs : ReturnStep(r)
  \/ \E r \in Reqs : Respond(r)

\* The event loops of server and browser run every callback that is ready: a
\* resolver runs to its return, the response is written, a frame handed to
\* the socket arrives, and an onData that was called does its refetch.
ClientFairness ==
  /\ \A r \in Reqs : WF_vars(PublishStep(r)) /\ WF_vars(ReturnStep(r)) /\ WF_vars(Respond(r))
  /\ \A s \in Slots : WF_vars(SocketSendDone(s))
  /\ \A c \in UserLists : WF_vars(Refetch(c))

ClientSpec == UserListInit /\ [][ClientNext]_vars /\ ClientFairness

\* Client c has sent all three subscriptions, displays the store as it is
\* and no write is under way.
InSync(c) ==
  /\ asked[c] = SubscriptionFields
  /\ shown[c] = users
  /\ \A r \in Reqs : pc[r] = "idle"

\* C29: every client that holds the three subscriptions eventually shows the
\* server's current user list: from a moment at which it has sent its three
\* subscriptions and shows the store, whatever writes other clients make, it
\* shows the store again from some point on and for good once the writes have
\* stopped. The code does not do this: the userCreated subscription is never
\* registered (C28), so a createUser by another client reaches no one.
C29_SubscribedClientConverges ==
  \A c \in UserLists : [](InSync(c) => <>[](shown[c] = users))

\* ================================================================== shutdown
\* Mutant of Sigterm: the handler ends the process at once (process.exit)
\* instead of awaiting server.stop().
Sigterm_Abrupt ==
  /\ executing = NoReq /\ phase = "running"
  /\ phase' = "stopped"
  /\ UNCHANGED << users, nextUserId, listeners, conn, subStatus, iterTopic, pushQueue,
                  pullWaiting, sending, received, startSeq, published, commitLog,
                  pc, op, result, evt, executing, writes, connParams, heapVars,
                  linkVars, auditVars, clientVars >>

\* process.on('SIGTERM'): the handler calls server.stop(), which starts the
\* drainServer hooks: ApolloServerPluginDrainHttpServer stops the HTTP
\* listener and ends the idle sockets, so that no new request or connection
\* gets in, and serverCleanup.dispose() sends every WebSocket client a close.
\* A signal handler is a callback of the event loop: no resolver is on the
\* stack when it runs.
Sigterm ==
  /\ executing = NoReq /\ phase = "running"
  /\ phase' = "draining"
  /\ UNCHANGED << users, nextUserId, listeners, conn, subStatus, iterTopic, pushQueue,
                  pullWaiting, sending, received, startSeq, published, commitLog,
                  pc, op, result, evt, executing, writes, connParams, heapVars,
                  linkVars, auditVars, clientVars >>

\* await server.stop() resolves: the HTTP drain has seen every request in
\* flight answered (the resolvers are synchronous, far inside the grace
\* period) and dispose() has seen every WebSocket client closed; then
\* httpServer.close().
StopDone ==
  /\ executing = NoReq /\ phase = "draining"
  /\ \A r \in Reqs : pc[r] = "idle"
  /\ \A c \in Conns : conn[c] = "closed"
  /\ phase' = "stopped"
  /\ UNCHANGED << users, nextUserId, listeners, conn, subStatus, iterTopic, pushQueue,
                  pullWaiting, sending, received, startSeq, published, commitLog,
                  pc, op, result, evt, executing, writes, connParams, heapVars,
                  linkVars, auditVars, clientVars >>

\* The close event of connection c's socket after dispose() closed it.
DrainClose(c) == phase = "draining" /\ conn[c] = "open" /\ Close(c)

ShutdownNext ==
  \/ \E r \in Reqs, id \in IdArgs, input \in UpdateInputs : UpdateUser(r, id, input)
  \/ \E r \in Reqs : PublishStep(r)
  \/ \E r \in Reqs : ReturnStep(r)
  \/ \E r \in Reqs : Respond(r)
  \/ \E r \in Reqs : QueryUsers(r)
  \/ \E c \in Conns, params \in AppJsxParams : Connect(c, params)
  \/ \E c \in Conns, id \in SubIds : Subscribe(c, id, "userUpdated")
  \/ \E s \in Slots : SocketSendDone(s)
  \/ \E c \in Conns : Close(c)
  \/ Sigterm
  \/ StopDone

\* The event loop runs every callback that is ready: a resolver on the stack
\* runs to its return, a resolved request gets its response, a socket that
\* the server closed gets its close event, and stop() resolves when nothing
\* is left to wait for.
ShutdownFairness ==
  /\ \A r \in Reqs : WF_vars(PublishStep(r)) /\ WF_vars(ReturnStep(r)) /\ WF_vars(Respond(r))
  /\ \A c \in Conns : WF_vars(DrainClose(c))
  /\ WF_vars(StopDone)

ShutdownSpec == Init /\ [][ShutdownNext]_vars /\ ShutdownFairness

\* The order in which an accepted HTTP operation moves on.
Progresses(from, to) ==
  \/ from = "publish" /\ to = "return"
  \/ from = "return" /\ to = "resolved"
  \/ from = "resolved" /\ to = "idle"

====
